---- MODULE Spec2Model ----
(***************************************************************************)
(* Model of the scoring and aggregation engine of                          *)
(* src/worldsproject/compare_teams.py: calculate_weighted_rankings and     *)
(* calculate_head_to_head_records, applied to a list of match records and  *)
(* a team-id -> name map.                                                  *)
(*                                                                         *)
(* Python floats are modelled as exact rationals <<numerator, denominator>>*)
(* in lowest terms with a positive denominator.  A dict is modelled as a   *)
(* sequence of entries in insertion order, because the order of            *)
(* ranking_data decides the order of ties in the returned list.            *)
(***************************************************************************)
EXTENDS Integers, Sequences, FiniteSets, TLC

\* ------------------------------------------------------------------------
\* Python values that are not team ids
\* ------------------------------------------------------------------------
\* Python None (a null 'winner' / 'league', the default of next(..., None)).
None == -1
\* A dict that lacks the looked-up key ('id' not in winner, 'id' not in opp['opponent']).
NoId == -2
\* A key that is missing from the match record (match.get(key, default) takes the default).
Absent == -3

\* ------------------------------------------------------------------------
\* Bounds and input sets
\* ------------------------------------------------------------------------
\* Longest list of arbitrary match records given to the two functions.
MaxMatches == 3
\* Longest list of decisive outcomes given to the two functions.
MaxDecisive == 4

\* ------------------------------------------------------------------------
\* Exact rational arithmetic for the float computations
\* ------------------------------------------------------------------------
Abs(x) == IF x < 0 THEN -x ELSE x

RECURSIVE GCD(_, _)
GCD(a, b) == IF b = 0 THEN a ELSE GCD(b, a % b)

RNorm(n, d) ==
    LET g == GCD(Abs(n), Abs(d))
        s == IF d < 0 THEN -1 ELSE 1
    IN  <<(s * n) \div g, (s * d) \div g>>

Rat(n) == <<n, 1>>
RAdd(a, b) == RNorm(a[1] * b[2] + b[1] * a[2], a[2] * b[2])
RSub(a, b) == RNorm(a[1] * b[2] - b[1] * a[2], a[2] * b[2])
RMul(a, b) == RNorm(a[1] * b[1], a[2] * b[2])
RDiv(a, b) == RNorm(a[1] * b[2], a[2] * b[1])
RLess(a, b) == a[1] * b[2] < b[1] * a[2]
RLeq(a, b) == a[1] * b[2] <= b[1] * a[2]

\* ------------------------------------------------------------------------
\* Ranking system configuration
\* ------------------------------------------------------------------------
BASE_WIN_POINTS == 100

SERIES_MULTIPLIERS == (1 :> <<1, 1>>) @@ (3 :> <<6, 5>>) @@ (5 :> <<3, 2>>)

\* The shipped table has no entries (its examples are commented out).
LEAGUE_WEIGHTS == [league_id \in {} |-> <<1, 1>>]

\* dict.get(key, default)
DictGet(d, key, default) == IF key \in DOMAIN d THEN d[key] ELSE default

\* ------------------------------------------------------------------------
\* Inputs: match records and team maps
\* ------------------------------------------------------------------------
\* A match record as the functions read it:
\*   winner     None (null or missing), NoId (a winner object without 'id'),
\*              or the winner's team id;
\*   opponents  the 'opponents' list, each entry a team id or NoId (an entry
\*              without 'opponent' or without an 'id');
\*   games      the number of entries of the 'games' list (0 when missing);
\*   league     Absent (no 'league' key), None (null), or the league id.
Match(w, o, g, l) == [winner |-> w, opponents |-> o, games |-> g, league |-> l]

\* decisive outcomes between the pairs (1, 2) and (2, 3), with and without games
DecisiveMatches ==
    {Match(o[w], o, g, Absent) : o \in {<<1, 2>>, <<2, 3>>}, w \in {1, 2}, g \in {0, 3}}

\* records that lack something, or carry more than the functions expect
OtherMatches ==
    { Match(None, <<1, 2>>, 3, Absent),       \* no winner
      Match(None, <<2, 3>>, 3, Absent),
      Match(None, <<1>>, 1, Absent),
      Match(NoId, <<1, 2>>, 1, 4194),         \* a winner without an id
      Match(3, <<1, 2>>, 3, Absent),          \* the winner is not an opponent
      Match(1, <<2, 3>>, 3, Absent),
      Match(1, <<1>>, 3, Absent),             \* fewer than two opponents
      Match(2, <<1, 2, 3>>, 5, 4194),         \* more than two opponents
      Match(2, <<1, NoId>>, 1, Absent),       \* an opponent without an id
      Match(1, <<1, 2>>, 5, None) }           \* a null league

Matches == DecisiveMatches \cup OtherMatches

\* ms is one of the lists of match records the functions are applied to:
\* up to MaxMatches records of any kind, or up to MaxDecisive decisive outcomes
IsMatchList(ms) ==
    \/ \E n \in 0..MaxMatches : ms \in [1..n -> Matches]
    \/ \E n \in 0..MaxDecisive : ms \in [1..n -> DecisiveMatches]

\* team_id_name_map in insertion order; at least two teams (load_teams_from_json).
TeamEntry(i, n) == [id |-> i, name |-> n]

TeamMaps ==
    { <<TeamEntry(1, "T1"), TeamEntry(2, "T2")>>,
      <<TeamEntry(1, "T1"), TeamEntry(2, "T2"), TeamEntry(3, "T3")>> }

MapIds(team_map) == {team_map[i].id : i \in 1..Len(team_map)}

\* ------------------------------------------------------------------------
\* ranking_data: the defaultdict of standings, in insertion order
\* ------------------------------------------------------------------------
\* team_id is the dict key; the other fields are the standing.
NewStanding(id, name) ==
    [team_id |-> id, name |-> name, wins |-> 0, losses |-> 0, points |-> Rat(0),
     total_games |-> 0, normalized_points |-> Rat(0)]

Keys(rd) == {rd[i].team_id : i \in 1..Len(rd)}

Entry(rd, id) == rd[CHOOSE i \in 1..Len(rd) : rd[i].team_id = id]

\* ranking_data[team_id]["name"] = team_name for every team of the map
InitRankingData(team_map) ==
    [i \in 1..Len(team_map) |-> NewStanding(team_map[i].id, team_map[i].name)]

\* if id in ranking_data: ranking_data[id][field] += 1   (membership never creates a key)
IncIfTracked(rd, id, field) ==
    [i \in 1..Len(rd) |->
        LET data == rd[i]
        IN  IF data.team_id = id
            THEN IF field = "wins" THEN [data EXCEPT !.wins = @ + 1]
                 ELSE [data EXCEPT !.losses = @ + 1]
            ELSE data]

\* if id in ranking_data: ranking_data[id]["total_games"] += num_games
AddGamesIfTracked(rd, id, num_games) ==
    [i \in 1..Len(rd) |->
        LET data == rd[i]
        IN  IF data.team_id = id THEN [data EXCEPT !.total_games = @ + num_games] ELSE data]

\* AddPoints with '=' in place of '+=': the last award replaces the earlier ones
AddPointsAssigned(rd, id, points_awarded) ==
    LET rd1 == IF id \in Keys(rd) THEN rd ELSE Append(rd, NewStanding(id, ""))
    IN  [i \in 1..Len(rd1) |->
            LET data == rd1[i]
            IN  IF data.team_id = id THEN [data EXCEPT !.points = points_awarded]
                ELSE data]

\* ranking_data[id]["points"] += points_awarded; a missing key is created by the defaultdict
AddPoints(rd, id, points_awarded) ==
    LET rd1 == IF id \in Keys(rd) THEN rd ELSE Append(rd, NewStanding(id, ""))
    IN  [i \in 1..Len(rd1) |->
            LET data == rd1[i]
            IN  IF data.team_id = id THEN [data EXCEPT !.points = RAdd(@, points_awarded)]
                ELSE data]

\* ------------------------------------------------------------------------
\* Reading one match record
\* ------------------------------------------------------------------------
\* winner and 'id' in winner
HasWinnerId(match) == match.winner # None /\ match.winner # NoId

\* [opp['opponent']['id'] for opp in ... if 'opponent' in opp and 'id' in opp['opponent']]
OpponentIds(match) == SelectSeq(match.opponents, LAMBDA o : o # NoId)

\* next((opp_id for opp_id in opponents if opp_id != winner_id), None)
LoserId(opponents, winner_id) ==
    LET others == SelectSeq(opponents, LAMBDA o : o # winner_id)
    IN  IF others = <<>> THEN None ELSE Head(others)

\* truth value of an id: None and 0 are false
Truthy(id) == id # None /\ id # 0

\* ------------------------------------------------------------------------
\* calculate_weighted_rankings, first pass: wins, losses, total games
\* ------------------------------------------------------------------------
\* The state of the first loop: ranking_data, the local 'opponents' (assigned
\* only inside the winner branch; 'bound' is FALSE until its first
\* assignment) and whether the loop has raised.
FirstPassStart(team_map) ==
    [rd |-> InitRankingData(team_map), opponents |-> <<>>, bound |-> FALSE, raised |-> FALSE]

\* the winner branch of the loop body
CreditWinLoss(rd, winner_id, opponents) ==
    IncIfTracked(IncIfTracked(rd, winner_id, "wins"), LoserId(opponents, winner_id), "losses")

\* the games accounting of the loop body, with whatever 'opponents' holds
CreditGames(rd, opponents, num_games) ==
    IF Len(opponents) = 2
    THEN AddGamesIfTracked(AddGamesIfTracked(rd, opponents[1], num_games),
                           opponents[2], num_games)
    ELSE rd

\* one iteration of the first loop
FirstPassStep(st, match) ==
    IF st.raised THEN st
    ELSE LET has_winner == HasWinnerId(match)
             opponents == IF has_winner THEN OpponentIds(match) ELSE st.opponents
             rd1 == IF has_winner THEN CreditWinLoss(st.rd, match.winner, opponents)
                    ELSE st.rd
         IN  IF ~has_winner /\ ~st.bound
             THEN [st EXCEPT !.raised = TRUE]      \* UnboundLocalError: opponents
             ELSE [rd |-> CreditGames(rd1, opponents, match.games),
                   opponents |-> opponents, bound |-> TRUE, raised |-> FALSE]

RECURSIVE FirstPassLoop(_, _)
FirstPassLoop(st, ms) ==
    IF ms = <<>> THEN st ELSE FirstPassLoop(FirstPassStep(st, Head(ms)), Tail(ms))

\* winrates[team_id] = wins / total_matches if total_matches > 0 else 0
Winrate(data) ==
    LET total_matches == data.wins + data.losses
    IN  IF total_matches > 0 THEN RNorm(data.wins, total_matches) ELSE Rat(0)

ComputeWinrates(rd) == [id \in Keys(rd) |-> Winrate(Entry(rd, id))]

\* ------------------------------------------------------------------------
\* second pass: award points with weighting
\* ------------------------------------------------------------------------
\* winrate_multiplier
WinrateMultiplier(winner_winrate, loser_winrate) ==
    IF RLess(winner_winrate, loser_winrate)
    THEN RAdd(Rat(1), RSub(loser_winrate, winner_winrate))
    ELSE Rat(1)

\* league_id = match.get('league', {}).get('id')
LeagueId(match) == IF match.league = Absent THEN None ELSE match.league

\* points_awarded = BASE_WIN_POINTS * series_multiplier * winrate_multiplier * league_multiplier
PointsAwarded(match, winner_id, loser_id, rates) ==
    LET league_multiplier == DictGet(LEAGUE_WEIGHTS, LeagueId(match), Rat(1))
        series_multiplier == DictGet(SERIES_MULTIPLIERS, match.games, Rat(1))
        winrate_multiplier == WinrateMultiplier(DictGet(rates, winner_id, Rat(0)),
                                                DictGet(rates, loser_id, Rat(0)))
    IN  RMul(RMul(RMul(Rat(BASE_WIN_POINTS), series_multiplier), winrate_multiplier),
             league_multiplier)

\* the record reaches the scoring branch: winner with an id, winner_id and loser_id truthy
Scores(match) ==
    /\ HasWinnerId(match)
    /\ Truthy(match.winner)
    /\ Truthy(LoserId(OpponentIds(match), match.winner))

\* one iteration of the second loop; st = [rd, raised]
SecondPassStep(st, match, rates) ==
    IF st.raised \/ ~Scores(match) THEN st
    ELSE IF match.league = None
         THEN [st EXCEPT !.raised = TRUE]          \* AttributeError: None.get('id')
         ELSE LET winner_id == match.winner
                  loser_id == LoserId(OpponentIds(match), winner_id)
              IN  [st EXCEPT !.rd = AddPoints(st.rd, winner_id,
                                              PointsAwarded(match, winner_id, loser_id, rates))]

RECURSIVE SecondPassLoop(_, _, _)
SecondPassLoop(st, ms, rates) ==
    IF ms = <<>> THEN st
    ELSE SecondPassLoop(SecondPassStep(st, Head(ms), rates), Tail(ms), rates)

\* ------------------------------------------------------------------------
\* final pass: normalized points, then the sorted list
\* ------------------------------------------------------------------------
\* NormalizedPoints dividing by the matches played instead of the games played
NormalizedPointsPerMatch(data) ==
    IF data.wins + data.losses > 0 THEN RDiv(data.points, Rat(data.wins + data.losses))
    ELSE data.normalized_points

NormalizedPoints(data) ==
    IF data.total_games > 0 THEN RDiv(data.points, Rat(data.total_games))
    ELSE data.normalized_points

Normalize(rd) ==
    [i \in 1..Len(rd) |->
        LET data == rd[i] IN [data EXCEPT !.normalized_points = NormalizedPoints(data)]]

\* InsertPos without reverse=True: ascending order
InsertPosAscending(sorted, x) ==
    LET larger == {i \in 1..Len(sorted) :
                       RLess(x.normalized_points, sorted[i].normalized_points)}
    IN  IF larger = {} THEN Len(sorted) + 1
        ELSE CHOOSE i \in larger : \A j \in larger : i <= j

\* where list.sort(key=normalized_points, reverse=True) places x among the
\* already placed entries: after every entry whose key is >= x's (stable)
InsertPos(sorted, x) ==
    LET smaller == {i \in 1..Len(sorted) :
                        RLess(sorted[i].normalized_points, x.normalized_points)}
    IN  IF smaller = {} THEN Len(sorted) + 1
        ELSE CHOOSE i \in smaller : \A j \in smaller : i <= j

InsertSorted(sorted, x) ==
    LET p == InsertPos(sorted, x)
    IN  SubSeq(sorted, 1, p - 1) \o <<x>> \o SubSeq(sorted, p, Len(sorted))

RECURSIVE SortRanked(_, _)
SortRanked(sorted, rest) ==
    IF rest = <<>> THEN sorted ELSE SortRanked(InsertSorted(sorted, Head(rest)), Tail(rest))

\* ranked_list = list(ranking_data.values()); ranked_list.sort(...)
RankedList(rd) == SortRanked(<<>>, Normalize(rd))

\* ------------------------------------------------------------------------
\* calculate_head_to_head_records
\* ------------------------------------------------------------------------
\* tuple(sorted((winner_id, loser_id)))
PairKey(a, b) == IF a <= b THEN <<a, b>> ELSE <<b, a>>

\* h2h_records[pair_key][winner_id] += 1; h2h_records[pair_key][loser_id] += 0
HeadToHeadStep(h2h, match) ==
    IF ~Scores(match) THEN h2h
    ELSE LET winner_id == match.winner
             loser_id == LoserId(OpponentIds(match), winner_id)
             key == PairKey(winner_id, loser_id)
             old == IF key \in DOMAIN h2h THEN h2h[key]
                    ELSE [id \in {} |-> 0]
             rec == [id \in DOMAIN old \cup {winner_id, loser_id} |->
                        DictGet(old, id, 0) + (IF id = winner_id THEN 1 ELSE 0)]
         IN  [k \in DOMAIN h2h \cup {key} |-> IF k = key THEN rec ELSE h2h[k]]

RECURSIVE HeadToHeadLoop(_, _)
HeadToHeadLoop(h2h, ms) ==
    IF ms = <<>> THEN h2h ELSE HeadToHeadLoop(HeadToHeadStep(h2h, Head(ms)), Tail(ms))

EmptyRecords == [k \in {} |-> [id \in {} |-> 0]]

\* ------------------------------------------------------------------------
\* The functions as a whole
\* ------------------------------------------------------------------------
\* calculate_weighted_rankings(matches, team_id_name_map): the returned list,
\* or raised = TRUE when one of the loops raises
CalculateWeightedRankings(ms, team_map) ==
    LET first == FirstPassLoop(FirstPassStart(team_map), ms)
        rates == ComputeWinrates(first.rd)
        second == SecondPassLoop([rd |-> first.rd, raised |-> FALSE], ms, rates)
    IN  IF first.raised \/ second.raised
        THEN [raised |-> TRUE, ranked_list |-> <<>>]
        ELSE [raised |-> FALSE, ranked_list |-> RankedList(second.rd)]

\* calculate_head_to_head_records(matches)
CalculateHeadToHeadRecords(ms) == HeadToHeadLoop(EmptyRecords, ms)

\* ------------------------------------------------------------------------
\* State
\* ------------------------------------------------------------------------
VARIABLES
    matches,            \* the list of match records given to both functions
    team_id_name_map,   \* the team map given to calculate_weighted_rankings
    pc,                 \* where calculate_weighted_rankings stands
    ranking_data,       \* its defaultdict of standings
    winrates,           \* its win-rate table
    ranked_list,        \* the list it returns
    h2h_pc,             \* "idle" until calculate_head_to_head_records has returned
    h2h_records         \* the mapping it returns

vars == <<matches, team_id_name_map, pc, ranking_data, winrates, ranked_list,
          h2h_pc, h2h_records>>

Init ==
    /\ IsMatchList(matches)
    /\ team_id_name_map \in TeamMaps
    /\ pc = "first_pass"
    /\ ranking_data = InitRankingData(team_id_name_map)
    /\ winrates = [id \in {} |-> Rat(0)]
    /\ ranked_list = <<>>
    /\ h2h_pc = "idle"
    /\ h2h_records = EmptyRecords

\* lines 151-183: the table, the first loop over matches, the win rates
FirstPass ==
    /\ pc = "first_pass"
    /\ LET first == FirstPassLoop(FirstPassStart(team_id_name_map), matches)
       IN  IF first.raised
           THEN /\ pc' = "raised"
                /\ UNCHANGED <<ranking_data, winrates>>
           ELSE /\ pc' = "second_pass"
                /\ ranking_data' = first.rd
                /\ winrates' = ComputeWinrates(first.rd)
    /\ UNCHANGED <<matches, team_id_name_map, ranked_list, h2h_pc, h2h_records>>

\* lines 186-212: the second loop over matches
SecondPass ==
    /\ pc = "second_pass"
    /\ LET second == SecondPassLoop([rd |-> ranking_data, raised |-> FALSE], matches, winrates)
       IN  IF second.raised
           THEN /\ pc' = "raised"
                /\ UNCHANGED ranking_data
           ELSE /\ pc' = "final_pass"
                /\ ranking_data' = second.rd
    /\ UNCHANGED <<matches, team_id_name_map, winrates, ranked_list, h2h_pc, h2h_records>>

\* lines 214-222: normalized points, the sort, the return
FinalPass ==
    /\ pc = "final_pass"
    /\ ranking_data' = Normalize(ranking_data)
    /\ ranked_list' = RankedList(ranking_data)
    /\ pc' = "returned"
    /\ UNCHANGED <<matches, team_id_name_map, winrates, h2h_pc, h2h_records>>

\* lines 224-242, applied to the same list once the ranking call has ended
HeadToHead ==
    /\ pc \in {"returned", "raised"}
    /\ h2h_pc = "idle"
    /\ h2h_records' = CalculateHeadToHeadRecords(matches)
    /\ h2h_pc' = "returned"
    /\ UNCHANGED <<matches, team_id_name_map, pc, ranking_data, winrates, ranked_list>>

Next == FirstPass \/ SecondPass \/ FinalPass \/ HeadToHead

Spec == Init /\ [][Next]_vars

\* ------------------------------------------------------------------------
\* What the properties speak about
\* ------------------------------------------------------------------------
RECURSIVE SumSeq(_)
SumSeq(ns) == IF ns = <<>> THEN 0 ELSE Head(ns) + SumSeq(Tail(ns))

\* the sum of f(ms[i]) over the records of ms that satisfy keep
SumOver(ms, keep(_), f(_)) ==
    SumSeq([i \in 1..Len(ms) |-> IF keep(ms[i]) THEN f(ms[i]) ELSE 0])

Count(ms, keep(_)) == SumOver(ms, keep, LAMBDA m : 1)

\* the record lists exactly two opponents
TwoOpponents(m) == Len(m.opponents) = 2 /\ Len(OpponentIds(m)) = 2

\* the record lists exactly the two opponents a and b
Between(m, a, b) ==
    /\ TwoOpponents(m)
    /\ {m.opponents[1], m.opponents[2]} = {a, b}
    /\ a # b

\* a decisive outcome: exactly two opponents and a winner that is one of them
Decisive(m) ==
    /\ TwoOpponents(m)
    /\ m.opponents[1] # m.opponents[2]
    /\ HasWinnerId(m)
    /\ m.winner \in {m.opponents[1], m.opponents[2]}

\* the loser of a decisive outcome: the other opponent
OtherOpponent(m) == IF m.opponents[1] = m.winner THEN m.opponents[2] ELSE m.opponents[1]

\* the team is named by the record, as winner or as opponent
Appears(m, id) == m.winner = id \/ \E i \in 1..Len(m.opponents) : m.opponents[i] = id

RankingDone == pc = "returned"
FirstPassDone == pc \in {"second_pass", "final_pass", "returned"}
HeadToHeadDone == h2h_pc = "returned"

\* ------------------------------------------------------------------------
\* C1: calculate_weighted_rankings never raises for data-quality issues:
\* whatever the records lack, the call ends by returning a standings list.
\* ------------------------------------------------------------------------
C1_NeverRaises == pc # "raised"

\* ------------------------------------------------------------------------
\* C2: after the first pass the total_games of every tracked team is the sum
\* of the game counts of the records that list exactly two opponents, one of
\* them this team, with or without a resolvable winner.
\* ------------------------------------------------------------------------
OwnGames(ms, id) ==
    SumOver(ms, LAMBDA m : TwoOpponents(m) /\ \E i \in 1..2 : m.opponents[i] = id,
            LAMBDA m : m.games)

C2_GamesOfOwnOpponents ==
    FirstPassDone =>
        \A i \in 1..Len(ranking_data) :
            ranking_data[i].team_id \in MapIds(team_id_name_map) =>
                ranking_data[i].total_games = OwnGames(matches, ranking_data[i].team_id)

\* ------------------------------------------------------------------------
\* C3: only decisive outcomes are scored: a record whose winner is not one of
\* its opponents, or that does not list exactly two opponents, changes no
\* wins, losses or points and creates no head-to-head entry.
\* ------------------------------------------------------------------------
DecisiveWins(ms, id) == Count(ms, LAMBDA m : Decisive(m) /\ m.winner = id)
DecisiveLosses(ms, id) == Count(ms, LAMBDA m : Decisive(m) /\ OtherOpponent(m) = id)

C3_OnlyDecisiveScored ==
    /\ RankingDone =>
          \A i \in 1..Len(ranked_list) :
              LET s == ranked_list[i]
              IN  /\ s.wins = (IF s.team_id \in MapIds(team_id_name_map)
                               THEN DecisiveWins(matches, s.team_id) ELSE 0)
                  /\ s.losses = (IF s.team_id \in MapIds(team_id_name_map)
                                 THEN DecisiveLosses(matches, s.team_id) ELSE 0)
                  /\ DecisiveWins(matches, s.team_id) = 0 => s.points = Rat(0)
    /\ HeadToHeadDone =>
          \A key \in DOMAIN h2h_records :
              /\ \E i \in 1..Len(matches) :
                     Decisive(matches[i]) /\ Between(matches[i], key[1], key[2])
              /\ \A id \in DOMAIN h2h_records[key] :
                     h2h_records[key][id] =
                         Count(matches, LAMBDA m : Decisive(m) /\ m.winner = id
                                                   /\ Between(m, key[1], key[2]))

\* ------------------------------------------------------------------------
\* C4: the returned list has exactly one standing per team of the map and
\* none for any other id; a team of the map that no record names has only
\* zeros.
\* ------------------------------------------------------------------------
C4_OneStandingPerTeam ==
    RankingDone =>
        /\ Len(ranked_list) = Len(team_id_name_map)
        /\ {ranked_list[i].team_id : i \in 1..Len(ranked_list)} = MapIds(team_id_name_map)
        /\ \A i \in 1..Len(ranked_list) :
               (\A j \in 1..Len(matches) : ~Appears(matches[j], ranked_list[i].team_id)) =>
                   ranked_list[i] =
                       NewStanding(ranked_list[i].team_id, ranked_list[i].name)

\* ------------------------------------------------------------------------
\* C5: for every pair key (A, B) of the head-to-head mapping, the two win
\* counts under the key add up to the number of decisive matches between A
\* and B, and some input match has A and B as its two opponents.
\* ------------------------------------------------------------------------
DecisiveBetween(ms, a, b) == Count(ms, LAMBDA m : Decisive(m) /\ Between(m, a, b))

C5_HeadToHeadSymmetry ==
    HeadToHeadDone =>
        \A key \in DOMAIN h2h_records :
            /\ DictGet(h2h_records[key], key[1], 0) + DictGet(h2h_records[key], key[2], 0)
                   = DecisiveBetween(matches, key[1], key[2])
            /\ \E i \in 1..Len(matches) : Between(matches[i], key[1], key[2])

\* ------------------------------------------------------------------------
\* C6: the total_games of the returned standings add up to twice the sum of
\* the game counts of the outcomes whose two opponents are both tracked
\* teams.  Stated for the lists the match provider delivers, whose records
\* list tracked teams only, and with "outcome" read either as a decisive
\* outcome or as any record with two opponents: one of the two sums is met.
\* ------------------------------------------------------------------------
RECURSIVE SumTotalGames(_)
SumTotalGames(list) ==
    IF list = <<>> THEN 0 ELSE Head(list).total_games + SumTotalGames(Tail(list))

BothTracked(m) ==
    TwoOpponents(m) /\ \A i \in 1..2 : m.opponents[i] \in MapIds(team_id_name_map)

Scoped(ms) ==
    \A j \in 1..Len(ms) : \A i \in 1..Len(ms[j].opponents) :
        ms[j].opponents[i] \in MapIds(team_id_name_map)

C6_TotalGamesSum ==
    (RankingDone /\ Scoped(matches)) =>
        \/ SumTotalGames(ranked_list)
               = 2 * SumOver(matches, BothTracked, LAMBDA m : m.games)
        \/ SumTotalGames(ranked_list)
               = 2 * SumOver(matches, LAMBDA m : BothTracked(m) /\ Decisive(m),
                             LAMBDA m : m.games)

\* ------------------------------------------------------------------------
\* C7: points >= 0 for every team, and one more won match for a team T,
\* added to the list, never lowers T's points, although it changes
\* the win rates behind the upset multiplier of T's other wins.
\* ------------------------------------------------------------------------
PointsOf(list, id) ==
    IF \E i \in 1..Len(list) : list[i].team_id = id
    THEN Entry(list, id).points
    ELSE Rat(0)

\* the result for the list with the won match m added at its end
WithOneMoreWin(m) == CalculateWeightedRankings(Append(matches, m), team_id_name_map)

\* the list with one more record is again one of the model's lists
CanAddWin ==
    \/ Len(matches) < MaxMatches
    \/ /\ Len(matches) < MaxDecisive
       /\ \A j \in 1..Len(matches) : matches[j] \in DecisiveMatches

C7_PointsMonotone ==
    RankingDone =>
        /\ \A i \in 1..Len(ranked_list) : RLeq(Rat(0), ranked_list[i].points)
        /\ CanAddWin =>
               \A m \in DecisiveMatches :
                   LET more == WithOneMoreWin(m)
                   IN  ~more.raised =>
                           RLeq(PointsOf(ranked_list, m.winner),
                                PointsOf(more.ranked_list, m.winner))

\* the added win lowers the upset multiplier of a win T already had, and T is
\* a tracked team
C7_Witness ==
    /\ RankingDone
    /\ CanAddWin
    /\ \E m \in DecisiveMatches : \E j \in 1..Len(matches) :
           LET more_ms == Append(matches, m)
               more_rates == ComputeWinrates(
                                 FirstPassLoop(FirstPassStart(team_id_name_map), more_ms).rd)
               loser_id == LoserId(OpponentIds(matches[j]), m.winner)
           IN  /\ ~WithOneMoreWin(m).raised
               /\ m.winner \in MapIds(team_id_name_map)
               /\ Scores(matches[j])
               /\ matches[j].winner = m.winner
               /\ RLess(WinrateMultiplier(DictGet(more_rates, m.winner, Rat(0)),
                                          DictGet(more_rates, loser_id, Rat(0))),
                        WinrateMultiplier(DictGet(winrates, m.winner, Rat(0)),
                                          DictGet(winrates, loser_id, Rat(0))))

\* ------------------------------------------------------------------------
\* C8: a team's final points are the sum, over the decisive outcomes it won,
\* of BASE_WIN_POINTS * series_weight * upset_multiplier * league_weight,
\* with the win rates of the table computed by the first pass, and nothing
\* else.
\* ------------------------------------------------------------------------
RECURSIVE RSumSeq(_)
RSumSeq(rs) == IF rs = <<>> THEN Rat(0) ELSE RAdd(Head(rs), RSumSeq(Tail(rs)))

SeriesWeight(m) ==
    IF m.games = 1 THEN <<1, 1>> ELSE IF m.games = 3 THEN <<6, 5>>
    ELSE IF m.games = 5 THEN <<3, 2>> ELSE <<1, 1>>

UpsetMultiplier(m) ==
    LET winner_winrate == DictGet(winrates, m.winner, Rat(0))
        loser_winrate == DictGet(winrates, OtherOpponent(m), Rat(0))
    IN  IF RLeq(loser_winrate, winner_winrate) THEN Rat(1)
        ELSE RSub(RAdd(Rat(1), loser_winrate), winner_winrate)

DecisiveAward(m) == RMul(RMul(Rat(BASE_WIN_POINTS), SeriesWeight(m)), UpsetMultiplier(m))

C8_PointsAreDecisiveAwards ==
    RankingDone =>
        \A i \in 1..Len(ranked_list) :
            ranked_list[i].points =
                RSumSeq([j \in 1..Len(matches) |->
                            IF Decisive(matches[j]) /\ matches[j].winner = ranked_list[i].team_id
                            THEN DecisiveAward(matches[j]) ELSE Rat(0)])

\* ------------------------------------------------------------------------
\* C9: the returned list is non-increasing in normalized_points.
\* ------------------------------------------------------------------------
C9_SortedDescending ==
    RankingDone =>
        \A i \in 1..(Len(ranked_list) - 1) :
            RLeq(ranked_list[i + 1].normalized_points, ranked_list[i].normalized_points)

\* the sort moved an entry: the list differs from the order of ranking_data
C9_Witness ==
    /\ RankingDone
    /\ Len(ranked_list) >= 3
    /\ ranked_list # ranking_data
    /\ RLess(ranked_list[2].normalized_points, ranked_list[1].normalized_points)
    /\ RLess(ranked_list[3].normalized_points, ranked_list[2].normalized_points)

\* ------------------------------------------------------------------------
\* C10: in every returned standing normalized_points is points / total_games
\* when total_games > 0 and 0 when total_games = 0, also for a team with
\* wins and points whose matches all have an empty games list.
\* ------------------------------------------------------------------------
C10_NormalizedPoints ==
    RankingDone =>
        \A i \in 1..Len(ranked_list) :
            LET s == ranked_list[i]
            IN  /\ s.total_games > 0 =>
                       RMul(s.normalized_points, Rat(s.total_games)) = s.points
                /\ s.total_games = 0 => s.normalized_points = Rat(0)

\* one standing with wins and points but no games, another with points and games
C10_Witness ==
    /\ RankingDone
    /\ \E i, j \in 1..Len(ranked_list) :
           /\ ranked_list[i].wins > 0
           /\ RLess(Rat(0), ranked_list[i].points)
           /\ ranked_list[i].total_games = 0
           /\ ranked_list[j].total_games > 0
           /\ RLess(Rat(0), ranked_list[j].normalized_points)
           /\ ranked_list[j].normalized_points # ranked_list[j].points

\* ------------------------------------------------------------------------
\* C11: the win rate computed at the end of the first pass is between 0 and
\* 1 for every team, is wins / (wins + losses) for a team with at least one
\* decisive match, and is 0 for a team with no decisive match.
\* ------------------------------------------------------------------------
DecisiveMatchesOf(ms, id) == DecisiveWins(ms, id) + DecisiveLosses(ms, id)

C11_WinrateBounds ==
    FirstPassDone =>
        \A id \in DOMAIN winrates :
            LET data == Entry(ranking_data, id)
            IN  /\ RLeq(Rat(0), winrates[id])
                /\ RLeq(winrates[id], Rat(1))
                /\ DecisiveMatchesOf(matches, id) > 0 =>
                       RMul(winrates[id], Rat(data.wins + data.losses)) = Rat(data.wins)
                /\ DecisiveMatchesOf(matches, id) = 0 => winrates[id] = Rat(0)

\* ------------------------------------------------------------------------
\* C12: the values of every team (wins, losses, total_games, points,
\* normalized_points) depend on the records of the list only, not on their
\* order: every permutation of the list, also of one with records without a
\* resolvable winner, returns the same standing for every team.
\* ------------------------------------------------------------------------
Orderings(n) == {f \in [1..n -> 1..n] : \A i, j \in 1..n : f[i] = f[j] => i = j}

Permuted(ms, f) == [i \in 1..Len(ms) |-> ms[f[i]]]

Standings(list) == {list[i] : i \in 1..Len(list)}

C12_OrderIndependent ==
    RankingDone =>
        \A f \in Orderings(Len(matches)) :
            LET other == CalculateWeightedRankings(Permuted(matches, f), team_id_name_map)
            IN  /\ ~other.raised
                /\ Standings(other.ranked_list) = Standings(ranked_list)

====
